---- MODULE Spec2Model ----
(***************************************************************************)
(* A model of the berlin location search engine (berlin-core):             *)
(* ingestion of raw records into a LocationsDb, finalisation of the word   *)
(* index (mk_fst), query parsing (SearchTerm::from_raw_query), candidate   *)
(* recall and scoring (LocationsDb::search, Location::search,              *)
(* SearchTerm::match_str) and graph reranking (ResultsGraph::from_results).*)
(*                                                                         *)
(* Strings are sequences of characters; a character is a one-character     *)
(* TLA+ string, except "SZ", which stands for the one non-ASCII character  *)
(* U+00DF.  Option<T> is a sequence of length at most one: <<>> is None    *)
(* and <<x>> is Some(x).  Offsets are 0-based byte positions, as in Rust.  *)
(***************************************************************************)
EXTENDS Integers, Sequences, FiniteSets, TLC

VARIABLES
    phase,          \* "ingest" | "decode" | "csv" | "ready" | "answered" |
                    \* "aborted": position of the process
    decoders,       \* ingest: raw record -> [pc, loc] of the task decoding it
    db_lock,        \* ingest: the task that holds the RwLock for writing
    csv_todo,       \* ingest: the rows of the CSV file not yet read
    pool,           \* the process-wide interned string table (ustr)
    all,            \* LocationsDb.all: key -> Location
    state_by_code,  \* LocationsDb.state_by_code
    subdiv_by_code, \* LocationsDb.subdiv_by_code
    by_word_map,    \* LocationsDb.by_word_map: word -> set of keys
    by_word_vec,    \* LocationsDb.by_word_vec: sorted vector of (word, keys)
    fst,            \* LocationsDb.fst: word -> index into by_word_vec
    call,           \* the arguments of the last query: raw, state, limit, lev_distance
    st,             \* Option<SearchTerm>: the parsed form of the last query
    outcome,        \* "none" | "ok" | "panic": how the last query ended
    prerank,        \* the map `res` of search before reranking: key -> Score
    reranked,       \* ResultsGraph.scores after reranking: key -> i64
    results,        \* the vector returned by search
    subject_arg,    \* Option<&str>: the subject handed to match_str on its own
    matched         \* how that call of match_str ended: [panic, score: Option<Score>]

vars == <<phase, decoders, db_lock, csv_todo, pool, all, state_by_code,
          subdiv_by_code, by_word_map, by_word_vec, fst, call, st, outcome,
          prerank, reranked, results, subject_arg, matched>>

(***************************************************************************)
(* Bounds of the model.                                                    *)
(***************************************************************************)
MaxTokens == 3      \* longest query, in tokens
MaxLimit == 2       \* largest limit argument
MaxLevDist == 3     \* largest lev_distance argument

(***************************************************************************)
(* Scoring constants.                                                      *)
(***************************************************************************)
SCORE_SOFT_MAX == 1000
STATE_CODE_BOOST == 32
SUBDIV_CODE_BOOST == 16
SINGLE_WORD_MATCH_PENALTY == 100
SEARCH_INCLUSION_THRESHOLD == 400
GRAPH_EDGE_THRESHOLD == 600

(***************************************************************************)
(* Characters and strings.                                                 *)
(***************************************************************************)
None == <<>>
Some(x) == <<x>>
IsSome(o) == Len(o) = 1
Unwrap(o) == o[1]

Min2(a, b) == IF a <= b THEN a ELSE b
Max2(a, b) == IF a >= b THEN a ELSE b

UpperCase == <<"A","B","C","D","E","F","G","H","I","J","K","L","M",
               "N","O","P","Q","R","S","T","U","V","W","X","Y","Z">>
LowerCase == <<"a","b","c","d","e","f","g","h","i","j","k","l","m",
               "n","o","p","q","r","s","t","u","v","w","x","y","z">>

\* The characters in byte order (ASCII), as str::cmp compares them.
ByteOrder == <<" ", "-", "0","1","2","3","4","5","6","7","8","9", ":">>
             \o UpperCase \o LowerCase

CharCode(c) == CHOOSE i \in 1..Len(ByteOrder) : ByteOrder[i] = c

\* deunicode::deunicode on one character: ASCII is kept, U+00DF becomes "ss".
Deunicode(c) == IF c = "SZ" THEN <<"s", "s">> ELSE <<c>>

\* str::to_lowercase on one ASCII character.
LowerOf ==
    [c \in {UpperCase[i] : i \in 1..Len(UpperCase)} |->
        LowerCase[CHOOSE i \in 1..Len(UpperCase) : UpperCase[i] = c]] @@ <<>>

ToLower(c) == IF c \in DOMAIN LowerOf THEN LowerOf[c] ELSE c

RECURSIVE Flatten(_)
Flatten(ss) == IF ss = <<>> THEN <<>> ELSE Head(ss) \o Flatten(Tail(ss))

\* normalize: transliterate to ASCII, then lowercase.
RECURSIVE DeunicodeAll(_)
DeunicodeAll(s) == IF s = <<>> THEN <<>> ELSE Deunicode(Head(s)) \o DeunicodeAll(Tail(s))

RECURSIVE LowerAll(_)
LowerAll(s) == IF s = <<>> THEN <<>> ELSE <<ToLower(Head(s))>> \o LowerAll(Tail(s))

normalize(s) == LowerAll(DeunicodeAll(s))

\* A character inside a word, for the characters of the model: " " and "-"
\* are word breaks.
IsWordChar(c) == c \notin {" ", "-"}

\* str::unicode_words: the maximal runs of word characters, in order.
RECURSIVE WordsFrom(_, _, _)
WordsFrom(s, i, cur) ==
    IF i > Len(s)
    THEN IF cur = <<>> THEN <<>> ELSE <<cur>>
    ELSE IF IsWordChar(s[i])
         THEN WordsFrom(s, i + 1, Append(cur, s[i]))
         ELSE (IF cur = <<>> THEN <<>> ELSE <<cur>>) \o WordsFrom(s, i + 1, <<>>)

unicode_words(s) == WordsFrom(s, 1, <<>>)

\* str::split(sep): the pieces between occurrences of the character sep
\* (empty pieces included).
RECURSIVE SplitFrom(_, _, _, _)
SplitFrom(s, sep, i, cur) ==
    IF i > Len(s) THEN <<cur>>
    ELSE IF s[i] = sep
         THEN <<cur>> \o SplitFrom(s, sep, i + 1, <<>>)
         ELSE SplitFrom(s, sep, i + 1, Append(cur, s[i]))

split(s, sep) == SplitFrom(s, sep, 1, <<>>)

\* [a, b].join(" ")
JoinSp(a, b) == a \o <<" ">> \o b

starts_with(s, p) == Len(p) <= Len(s) /\ SubSeq(s, 1, Len(p)) = p

\* str::find: Some(byte offset of the first occurrence) or None.
find(hay, needle) ==
    LET hits == {i \in 0..(Len(hay) - Len(needle)) :
                    SubSeq(hay, i + 1, i + Len(needle)) = needle}
    IN  IF hits = {} THEN None
        ELSE Some(CHOOSE i \in hits : \A j \in hits : i <= j)

\* str::cmp: lexicographic order of the bytes.
RECURSIVE StrLess(_, _)
StrLess(a, b) ==
    IF b = <<>> THEN FALSE
    ELSE IF a = <<>> THEN TRUE
    ELSE IF Head(a) = Head(b) THEN StrLess(Tail(a), Tail(b))
    ELSE CharCode(Head(a)) < CharCode(Head(b))

\* strsim::levenshtein, row by row.
RECURSIVE LevRow(_, _, _, _)
LevRow(prev, c, b, row) ==
    IF Len(row) = Len(b) + 1 THEN row
    ELSE LET j == Len(row)
             del == prev[j + 1] + 1
             ins == row[j] + 1
             sub == IF b[j] = c THEN prev[j] ELSE prev[j] + 1
             v == IF del <= ins THEN (IF del <= sub THEN del ELSE sub)
                  ELSE (IF ins <= sub THEN ins ELSE sub)
         IN  LevRow(prev, c, b, Append(row, v))

RECURSIVE LevRows(_, _, _, _)
LevRows(a, b, i, prev) ==
    IF i > Len(a) THEN prev[Len(b) + 1]
    ELSE LevRows(a, b, i + 1, LevRow(prev, a[i], b, <<prev[1] + 1>>))

RECURSIVE CountTo(_)
CountTo(n) == IF n < 0 THEN <<>> ELSE Append(CountTo(n - 1), n)

levenshtein(a, b) == LevRows(a, b, 1, CountTo(Len(b)))

(***************************************************************************)
(* Query parsing: search.rs.                                               *)
(***************************************************************************)
S_at == <<"a","t">>
S_to == <<"t","o">>
S_in == <<"i","n">>
S_on == <<"o","n">>
S_of == <<"o","f">>
S_for == <<"f","o","r">>
S_by == <<"b","y">>
S_and == <<"a","n","d">>
S_was == <<"w","a","s">>
S_did == <<"d","i","d">>
S_the == <<"t","h","e">>

STOP_WORDS == {S_at, S_to, S_in, S_on, S_of, S_for, S_by, S_and, S_was, S_did, S_the}

\* Ustr::from_existing(s).is_some(): lookup by existence in the interned table.
from_existing(p, s) == s \in p

\* The stop_words vector: the tokens that are interned and in STOP_WORDS.
StopWordsOf(p, split_words) ==
    SelectSeq(split_words, LAMBDA w : from_existing(p, w) /\ w \in STOP_WORDS)

InSeq(x, seq) == \E i \in 1..Len(seq) : seq[i] = x

\* What one pass of the loop over split_words pushes for token i, in the
\* order of the pushes: each entry names the vector pushed to and the term.
UnigramPushes(p, stop_words, w) ==
    IF ~from_existing(p, w) THEN <<[class |-> "not_exact", term |-> w]>>
    ELSE IF Len(w) <= 1 THEN <<>>
    ELSE IF InSeq(w, stop_words) THEN <<>>
    ELSE IF Len(w) <= 3
         THEN <<[class |-> "code", term |-> w], [class |-> "exact", term |-> w]>>
         ELSE <<[class |-> "exact", term |-> w]>>

LoopPushes(p, stop_words, split_words, i) ==
    LET w == split_words[i]
        doublet == JoinSp(w, split_words[i + 1])
        triplet == JoinSp(doublet, split_words[i + 2])
        two == IF Len(split_words) > i
               THEN <<[class |-> IF from_existing(p, doublet) THEN "exact" ELSE "not_exact",
                       term |-> doublet]>>
               ELSE <<>>
        three == IF Len(split_words) > i + 1 /\ from_existing(p, triplet)
                 THEN <<[class |-> "exact", term |-> triplet]>>
                 ELSE <<>>
    IN  two \o three \o UnigramPushes(p, stop_words, w)

RECURSIVE PushesFrom(_, _, _, _)
PushesFrom(p, stop_words, split_words, i) ==
    IF i > Len(split_words) THEN <<>>
    ELSE LoopPushes(p, stop_words, split_words, i)
         \o PushesFrom(p, stop_words, split_words, i + 1)

AllPushes(p, stop_words, split_words) == PushesFrom(p, stop_words, split_words, 1)

\* add_code / add_exact / add_not_exact: the MatchDef pushed for a term.
\* normalized.find(term).unwrap() panics when the term does not occur.
AddPanics(normalized, term) == find(normalized, term) = None

MatchDefOf(normalized, term) ==
    LET start == Unwrap(find(normalized, term))
    IN  [term |-> term, offset |-> [start |-> start, end |-> start + Len(term)]]

RECURSIVE MatchDefs(_, _, _)
MatchDefs(normalized, pushes, class) ==
    IF pushes = <<>> THEN <<>>
    ELSE (IF Head(pushes).class = class
          THEN <<MatchDefOf(normalized, Head(pushes).term)>> ELSE <<>>)
         \o MatchDefs(normalized, Tail(pushes), class)

\* The lev_dist field of the SearchTerm built from the lev_dist argument.
LevDistField(lev_dist) == lev_dist

\* A state_filter field that keeps the argument without the pool lookup.
StateFilterKept(p, state_filter) == state_filter

\* The state_filter field: state_filter.and_then(|s| Ustr::from_existing(&s)).
StateFilterField(p, state_filter) ==
    IF IsSome(state_filter) /\ from_existing(p, Unwrap(state_filter))
    THEN state_filter ELSE None

\* SearchTerm::from_raw_query panics when one of the pushes does.
FromRawQueryPanics(p, raw) ==
    LET normalized == normalize(raw)
        split_words == unicode_words(normalized)
        pushes == AllPushes(p, StopWordsOf(p, split_words), split_words)
    IN  \E i \in 1..Len(pushes) : AddPanics(normalized, pushes[i].term)

\* SearchTerm::from_raw_query, when it returns.
from_raw_query(p, raw, state_filter, limit, lev_dist) ==
    LET normalized == normalize(raw)
        split_words == unicode_words(normalized)
        stop_words == StopWordsOf(p, split_words)
        pushes == AllPushes(p, stop_words, split_words)
    IN  [raw |-> raw,
         normalized |-> normalized,
         stop_words |-> stop_words,
         codes |-> MatchDefs(normalized, pushes, "code"),
         exact_matches |-> MatchDefs(normalized, pushes, "exact"),
         not_exact_matches |-> MatchDefs(normalized, pushes, "not_exact"),
         state_filter |-> StateFilterField(p, state_filter),
         limit |-> limit,
         lev_dist |-> LevDistField(lev_dist)]

(***************************************************************************)
(* Scores: search.rs.                                                      *)
(***************************************************************************)
\* impl Ord for Offset: by start, then by end.
OffsetLess(a, b) == a.start < b.start \/ (a.start = b.start /\ a.end < b.end)

\* impl Ord for Score: by score, then by offset.
ScoreLess(a, b) == a.score < b.score \/ (a.score = b.score /\ OffsetLess(a.offset, b.offset))

\* Ord for Option<Score>: None is below every Some.
OptLess(a, b) ==
    IF ~IsSome(b) THEN FALSE
    ELSE IF ~IsSome(a) THEN TRUE
    ELSE ScoreLess(Unwrap(a), Unwrap(b))

\* std::cmp::max on Option<Score>.
OptMax(a, b) == IF OptLess(b, a) THEN a ELSE b

\* Iterator::max over Scores: None when there are none.
MaxScore(scores) ==
    IF scores = {} THEN None
    ELSE Some(CHOOSE s \in scores : \A t \in scores : ~ScoreLess(s, t))

\* Iterator::max over Option<Score> items: None when there are no items.
MaxOptScore(opts) ==
    IF opts = {} THEN None
    ELSE Some(CHOOSE o \in opts : \A t \in opts : ~OptLess(o, t))

SeqRange(seq) == {seq[i] : i \in 1..Len(seq)}

\* SearchTerm::codes_match
codes_match(t, subject_codes, score) ==
    MaxScore({[score |-> score, offset |-> tc.offset] :
                tc \in {m \in SeqRange(t.codes) : InSeq(m.term, subject_codes)}})

\* (normalized_levenshtein(subject, term) * SCORE_SOFT_MAX as f64) as i64.
\* The f64 product falls just below the integer for these (distance, length)
\* pairs, and the cast truncates.
FloatRoundsDown == {<<4, 5>>, <<8, 10>>, <<9, 10>>, <<12, 15>>, <<11, 20>>,
                    <<16, 20>>, <<18, 20>>}

SimilarityScore(subject, term) ==
    LET m == Max2(Len(subject), Len(term))
        d == levenshtein(subject, term)
        exact == ((m - d) * SCORE_SOFT_MAX) \div m
    IN  IF m = 0 THEN SCORE_SOFT_MAX
        ELSE IF <<d, m>> \in FloatRoundsDown THEN exact - 1 ELSE exact

\* subject.len() - 2 on usize underflows for a subject shorter than 2.
LenMinusTwoOverflows(subject) == Len(subject) < 2

\* w.term.len() > subject.len() - 2 && w.term.len() < subject.len() + 2 in a
\* build where the subtraction wraps: the wrapped value 2^64 - (2 - len) is
\* above every length.
WithinOne(term, subject) ==
    /\ IF LenMinusTwoOverflows(subject) THEN FALSE ELSE Len(term) > Len(subject) - 2
    /\ Len(term) < Len(subject) + 2

IsPrefixHit(term, subject) == Len(term) > 3 /\ starts_with(subject, term)

NotExactScore(term, subject) ==
    IF IsPrefixHit(term, subject) THEN SCORE_SOFT_MAX + 2 * Len(term)
    ELSE IF WithinOne(term, subject) THEN SimilarityScore(subject, term)
    ELSE 0

ExactScores(t, subject) ==
    {[score |-> SCORE_SOFT_MAX + Len(m.term), offset |-> m.offset] :
        m \in {x \in SeqRange(t.exact_matches) : x.term = subject}}

\* SearchTerm::match_str
match_str(t, subject) ==
    LET exact == MaxScore(ExactScores(t, subject))
    IN  IF IsSome(exact) THEN exact
        ELSE MaxScore({[score |-> NotExactScore(w.term, subject), offset |-> w.offset] :
                          w \in SeqRange(t.not_exact_matches)})

\* match_str panics in a build with overflow checks when it evaluates
\* subject.len() - 2 for a subject shorter than 2.
MatchStrPanics(checks, t, subject) ==
    /\ checks
    /\ ExactScores(t, subject) = {}
    /\ LenMinusTwoOverflows(subject)
    /\ \E w \in SeqRange(t.not_exact_matches) : ~IsPrefixHit(w.term, subject)

(***************************************************************************)
(* The entity model: location.rs.                                          *)
(***************************************************************************)
STATE_ENCODING == <<"I","S","O","-","3","1","6","6","-","1">>
SUBDIV_ENCODING == <<"I","S","O","-","3","1","6","6","-","2">>
LOCODE_ENCODING == <<"U","N","-","L","O","C","O","D","E">>
IATA_ENCODING == <<"I","A","T","A">>

\* format!("{}-{}", a, b)
DashJoin(a, b) == a \o <<"-">> \o b
\* format!("{}:{}", a, b)
ColonJoin(a, b) == a \o <<":">> \o b

\* state_key: the country key, when that string is interned.
state_key(p, state_code) ==
    LET str == DashJoin(STATE_ENCODING, state_code)
    IN  IF from_existing(p, str) THEN Some(str) ELSE None

\* subdiv_key: the subdivision key, when that string is interned.
subdiv_key(p, state_code, subdiv_code) ==
    LET str == DashJoin(SUBDIV_ENCODING, ColonJoin(state_code, subdiv_code))
    IN  IF from_existing(p, str) THEN Some(str) ELSE None

OptNormalize(o) == IF IsSome(o) THEN Some(normalize(Unwrap(o))) ELSE None

KnownEncodings == {STATE_ENCODING, SUBDIV_ENCODING, LOCODE_ENCODING, IATA_ENCODING}

\* The fields a payload must hold to decode: extract_field for the three
\* HashMap shapes, the fields of AirportRaw that are not Option for the fourth.
RequiredFields(c) ==
    IF c = STATE_ENCODING THEN {"name", "short", "alpha2", "alpha3", "continent"}
    ELSE IF c = SUBDIV_ENCODING THEN {"name", "supercode", "subcode", "level"}
    ELSE IF c = LOCODE_ENCODING THEN {"name", "supercode", "subcode", "function_code"}
    ELSE {"name", "iata", "type", "country", "region", "y", "x"}

\* serde_json::from_value and extract_field return Ok.
PayloadDecodes(c, d) == RequiredFields(c) \subseteq DOMAIN d

\* str::parse::<i16>: an optional sign, then digits, the value in range.
Digits == <<"0", "1", "2", "3", "4", "5", "6", "7", "8", "9">>

IsDigit(c) == \E i \in 1..10 : Digits[i] = c

DigitValue(c) == (CHOOSE i \in 1..10 : Digits[i] = c) - 1

RECURSIVE DigitsValue(_, _)
DigitsValue(s, acc) ==
    IF s = <<>> THEN acc ELSE DigitsValue(Tail(s), 10 * acc + DigitValue(Head(s)))

ParseI16(s) ==
    LET signed == s # <<>> /\ Head(s) \in {"+", "-"}
        digits == IF signed THEN Tail(s) ELSE s
        value == IF signed /\ Head(s) = "-"
                 THEN 0 - DigitsValue(digits, 0) ELSE DigitsValue(digits, 0)
    IN  IF digits = <<>> \/ \E i \in 1..Len(digits) : ~IsDigit(digits[i]) THEN None
        ELSE IF value < 0 - 32768 \/ value > 32767 THEN None
        ELSE Some(value)

\* AirportRaw.elevation: Option<String>
RawElevation(d) == IF "elevation" \in DOMAIN d THEN d.elevation ELSE None

\* e.parse::<i16>().expect("parse elevation") panics.
ElevationPanics(d) ==
    IsSome(RawElevation(d)) /\ ~IsSome(ParseI16(Unwrap(RawElevation(d))))

\* Airport.elevation: Option<i16>
Elevation(d) ==
    IF IsSome(RawElevation(d)) THEN ParseI16(Unwrap(RawElevation(d))) ELSE None

\* State::from_raw, Subdivision::from_raw, Locode::from_raw, Airport::from_raw
DataFromRaw(c, d) ==
    IF c = STATE_ENCODING THEN
        [kind |-> "St", name |-> normalize(d.name), short |-> normalize(d.short),
         alpha2 |-> normalize(d.alpha2), alpha3 |-> normalize(d.alpha3),
         continent |-> normalize(d.continent)]
    ELSE IF c = SUBDIV_ENCODING THEN
        [kind |-> "Subdv", name |-> normalize(d.name),
         supercode |-> normalize(d.supercode), subcode |-> normalize(d.subcode),
         level |-> normalize(d.level)]
    ELSE IF c = LOCODE_ENCODING THEN
        [kind |-> "Locd", name |-> normalize(d.name),
         supercode |-> normalize(d.supercode), subcode |-> normalize(d.subcode),
         subdivision_name |-> OptNormalize(d.subdivision_name),
         subdivision_code |-> OptNormalize(d.subdivision_code),
         function_code |-> normalize(d.function_code),
         coordinages |-> None]
    ELSE
        [kind |-> "Airp", name |-> normalize(d.name), iata |-> normalize(d.iata),
         airport_type |-> d.type, city |-> OptNormalize(d.city),
         country |-> normalize(d.country), region |-> normalize(d.region),
         x |-> d.x, y |-> d.y, elevation |-> Elevation(d)]

\* State::get_names and the one-name shapes
DataNames(data) ==
    IF data.kind = "St" /\ Len(data.short) > 3 /\ data.short # data.name
    THEN <<data.name, data.short>>
    ELSE <<data.name>>

\* State::get_codes and the one-code shapes
DataCodes(data) ==
    CASE data.kind = "St" ->
            <<data.alpha2, data.alpha3>>
            \o (IF Len(data.short) < 4 THEN <<data.short>> ELSE <<>>)
      [] data.kind = "Subdv" -> <<data.subcode>>
      [] data.kind = "Locd" -> <<data.subcode>>
      [] data.kind = "Airp" -> <<data.iata>>

get_names(loc) == DataNames(loc.data)
get_codes(loc) == DataCodes(loc.data)

\* The pieces of every name, split at " ".
NamePieces(data) ==
    UNION {SeqRange(split(n, " ")) : n \in SeqRange(DataNames(data))}

\* Location.words: the pieces longer than 3.
WordsOf(data) == {w \in NamePieces(data) : Len(w) > 3}

\* Location::from_raw panics: an unexpected location standard, or an
\* elevation that is not an i16 in a payload that decodes as AirportRaw.
FromRawPanics(r) ==
    \/ r.c \notin KnownEncodings
    \/ r.c = IATA_ENCODING /\ PayloadDecodes(r.c, r.d) /\ ElevationPanics(r.d)

\* Location::from_raw returns Err: the payload does not decode.
FromRawFails(r) == r.c \in KnownEncodings /\ ~PayloadDecodes(r.c, r.d)

\* Location::from_raw, when it returns Ok.
from_raw(r) ==
    LET data == DataFromRaw(r.c, r.d)
        id == normalize(r.i)
    IN  [key |-> DashJoin(r.c, id), encoding |-> r.c, id |-> id,
         words |-> WordsOf(data), data |-> data]

OptSet(o) == IF IsSome(o) THEN {Unwrap(o)} ELSE {}

\* The strings Location::from_raw interns: every `.into()` and Ustr::from.
DataStrings(data) ==
    CASE data.kind = "St" ->
            {data.name, data.short, data.alpha2, data.alpha3, data.continent}
      [] data.kind = "Subdv" ->
            {data.name, data.supercode, data.subcode, data.level}
      [] data.kind = "Locd" ->
            {data.name, data.supercode, data.subcode, data.function_code}
            \cup OptSet(data.subdivision_name) \cup OptSet(data.subdivision_code)
      [] data.kind = "Airp" ->
            {data.name, data.iata, data.airport_type, data.country, data.region}
            \cup OptSet(data.city)

Interned(loc) ==
    {loc.encoding, loc.id, loc.key} \cup DataStrings(loc.data) \cup NamePieces(loc.data)

\* Location::get_parents
get_parents(p, loc) ==
    LET d == loc.data
    IN  CASE d.kind = "St" -> <<None, None>>
          [] d.kind = "Subdv" -> <<state_key(p, d.supercode), None>>
          [] d.kind = "Locd" ->
                <<state_key(p, d.supercode),
                  IF IsSome(d.subdivision_code)
                  THEN subdiv_key(p, d.supercode, Unwrap(d.subdivision_code))
                  ELSE None>>
          [] d.kind = "Airp" -> <<state_key(p, d.country), None>>

\* Location::get_subdiv
get_subdiv(p, loc) ==
    LET d == loc.data
    IN  CASE d.kind = "St" -> None
          [] d.kind = "Subdv" -> Some(d.subcode)
          [] d.kind = "Locd" -> d.subdivision_code
          [] d.kind = "Airp" ->
                IF /\ Len(split(d.region, "-")) >= 2
                   /\ from_existing(p, split(d.region, "-")[2])
                THEN Some(split(d.region, "-")[2])
                ELSE None

\* LocData::get_subdiv
LocData_get_subdiv(d) ==
    CASE d.kind = "St" -> None
      [] d.kind = "Subdv" -> Some(d.subcode)
      [] d.kind = "Locd" -> d.subdivision_code
      [] d.kind = "Airp" -> None

\* Location::parent_boost
parent_boost(loc, score) ==
    CASE loc.data.kind = "St" -> score \div 2
      [] loc.data.kind = "Subdv" -> score \div 3
      [] loc.data.kind = "Locd" -> score \div 4
      [] loc.data.kind = "Airp" -> 0

\* Location::get_state
get_state(loc) ==
    CASE loc.data.kind = "St" -> loc.data.alpha2
      [] loc.data.kind = "Subdv" -> loc.data.supercode
      [] loc.data.kind = "Locd" -> loc.data.supercode
      [] loc.data.kind = "Airp" -> loc.data.country

\* A search that never applies the state filter.
NeverFilteredOut(t, loc) == FALSE

\* The state-filter test at the head of Location::search.
FilteredOut(t, loc) == IsSome(t.state_filter) /\ get_state(loc) # Unwrap(t.state_filter)

Penalised(o) ==
    IF IsSome(o)
    THEN Some([score |-> Unwrap(o).score - SINGLE_WORD_MATCH_PENALTY,
               offset |-> Unwrap(o).offset])
    ELSE None

\* words_score of Location::search: max().flatten() over the words.
WordsScore(t, loc) ==
    LET m == MaxOptScore({Penalised(match_str(t, n)) : n \in loc.words})
    IN  IF IsSome(m) THEN Unwrap(m) ELSE None

\* The shape-specific score of Location::search.
ShapeScore(t, loc) ==
    LET d == loc.data
    IN  CASE d.kind = "St" ->
                LET code_match == codes_match(t, DataCodes(d), SCORE_SOFT_MAX + STATE_CODE_BOOST)
                IN  IF IsSome(code_match) THEN code_match ELSE match_str(t, d.name)
          [] d.kind = "Subdv" ->
                LET code_match == codes_match(t, <<d.subcode>>, SCORE_SOFT_MAX + SUBDIV_CODE_BOOST)
                IN  IF IsSome(code_match) THEN code_match ELSE match_str(t, d.name)
          [] d.kind = "Locd" -> OptMax(match_str(t, d.name), match_str(t, d.subcode))
          [] d.kind = "Airp" -> OptMax(match_str(t, d.name), match_str(t, d.iata))

\* Location::search
LocSearch(t, loc) ==
    IF FilteredOut(t, loc) THEN None
    ELSE OptMax(WordsScore(t, loc), ShapeScore(t, loc))

\* The subjects Location::search hands to match_str.
MatchSubjects(t, loc) ==
    LET d == loc.data
    IN  loc.words \cup
        (CASE d.kind = "St" ->
                IF IsSome(codes_match(t, DataCodes(d), 0)) THEN {} ELSE {d.name}
           [] d.kind = "Subdv" ->
                IF IsSome(codes_match(t, <<d.subcode>>, 0)) THEN {} ELSE {d.name}
           [] d.kind = "Locd" -> {d.name, d.subcode}
           [] d.kind = "Airp" -> {d.name, d.iata})

LocSearchPanics(checks, t, loc) ==
    /\ ~FilteredOut(t, loc)
    /\ \E subject \in MatchSubjects(t, loc) : MatchStrPanics(checks, t, subject)

\* The Scores match_str takes its max over: the exact matches of the subject
\* when there are any, else one Score per not-exact match.
MatchStrScores(t, subject) ==
    IF ExactScores(t, subject) # {} THEN ExactScores(t, subject)
    ELSE {[score |-> NotExactScore(w.term, subject), offset |-> w.offset] :
             w \in SeqRange(t.not_exact_matches)}

\* The Scores codes_match takes its max over.
CodesScores(t, subject_codes, score) ==
    {[score |-> score, offset |-> tc.offset] :
        tc \in {m \in SeqRange(t.codes) : InSeq(m.term, subject_codes)}}

\* The Scores the shape-specific part of Location::search compares.
ShapeScores(t, loc) ==
    LET d == loc.data
    IN  CASE d.kind = "St" ->
                IF CodesScores(t, DataCodes(d), SCORE_SOFT_MAX + STATE_CODE_BOOST) # {}
                THEN CodesScores(t, DataCodes(d), SCORE_SOFT_MAX + STATE_CODE_BOOST)
                ELSE MatchStrScores(t, d.name)
          [] d.kind = "Subdv" ->
                IF CodesScores(t, <<d.subcode>>, SCORE_SOFT_MAX + SUBDIV_CODE_BOOST) # {}
                THEN CodesScores(t, <<d.subcode>>, SCORE_SOFT_MAX + SUBDIV_CODE_BOOST)
                ELSE MatchStrScores(t, d.name)
          [] d.kind = "Locd" -> MatchStrScores(t, d.name) \cup MatchStrScores(t, d.subcode)
          [] d.kind = "Airp" -> MatchStrScores(t, d.name) \cup MatchStrScores(t, d.iata)

\* Every Score Location::search compares on its way to the one it returns.
ComparedScores(t, loc) ==
    {Unwrap(Penalised(Some(s))) : s \in UNION {MatchStrScores(t, n) : n \in loc.words}}
        \cup ShapeScores(t, loc)

(***************************************************************************)
(* The index: locations_db.rs.                                             *)
(***************************************************************************)
EmptyMap == [x \in {} |-> x]

\* The function f with its values computed.
Materialize(f) == f @@ EmptyMap

\* HashMap::insert: the new value replaces the old one.
MapInsert(m, k, v) == (k :> v) @@ m

\* LocationsDb::insert, field by field.
InsertStateByCode(m, l) ==
    IF l.data.kind = "St" THEN MapInsert(m, l.data.alpha2, l.data.name) ELSE m

InsertSubdivByCode(m, l) ==
    IF l.data.kind = "Subdv" THEN MapInsert(m, l.id, l.data.name) ELSE m

\* An insert that keeps only the entity it stores.
InsertAllDrops(m, l) == MapInsert(EmptyMap, l.key, l)

InsertAll(m, l) == MapInsert(m, l.key, l)

\* The tokens mk_fst indexes an entity under: words, codes and names.
IndexTokens(loc) == loc.words \cup SeqRange(get_codes(loc)) \cup SeqRange(get_names(loc))

\* words_map of mk_fst
WordsMap(a) ==
    Materialize([w \in UNION {IndexTokens(a[k]) : k \in DOMAIN a} |->
                    {k \in DOMAIN a : w \in IndexTokens(a[k])}])

\* words_vec of mk_fst: the entries of words_map sorted by word.
RECURSIVE SortWords(_)
SortWords(ws) ==
    IF ws = {} THEN <<>>
    ELSE LET least == CHOOSE w \in ws : \A v \in ws : ~StrLess(v, w)
         IN  <<least>> \o SortWords(ws \ {least})

RECURSIVE WithKeys(_, _)
WithKeys(wm, sorted) ==
    IF sorted = <<>> THEN <<>>
    ELSE <<[word |-> Head(sorted), keys |-> wm[Head(sorted)]]>> \o WithKeys(wm, Tail(sorted))

WordsVec(wm) == WithKeys(wm, SortWords(DOMAIN wm))

\* An FST whose values count the positions from 1.
FstOfFromOne(wv) ==
    Materialize([w \in {wv[i].word : i \in 1..Len(wv)} |->
                    (CHOOSE i \in 1..Len(wv) : wv[i].word = w)])

\* fst::Map::from_iter over words_vec: word -> its position, counted from 0.
FstOf(wv) ==
    Materialize([w \in {wv[i].word : i \in 1..Len(wv)} |->
                    (CHOOSE i \in 1..Len(wv) : wv[i].word = w) - 1])

\* The first pass of search: the keys under the exact-match terms.
ExactRecall(wm, t) ==
    UNION {wm[m.term] : m \in {x \in SeqRange(t.exact_matches) : x.term \in DOMAIN wm}}

\* The automaton of a not-exact term: Levenshtein within lev_dist, or prefix.
AutomatonAccepts(term, lev_dist, word) ==
    \/ /\ Len(term) - Len(word) <= lev_dist
       /\ Len(word) - Len(term) <= lev_dist
       /\ levenshtein(term, word) <= lev_dist
    \/ starts_with(word, term)

\* The terms that enter the FST pass.
FstTerms(t) == {m.term : m \in {x \in SeqRange(t.not_exact_matches) : Len(x.term) > 3}}

\* The values the union stream yields.
FstHits(f, t) ==
    {f[w] : w \in {x \in DOMAIN f : \E term \in FstTerms(t) :
                        AutomatonAccepts(term, t.lev_dist, x)}}

\* by_word_vec.get(v).unwrap() fails for an index outside the vector.
FstRecallPanics(wv, f, t) == \E v \in FstHits(f, t) : v + 1 > Len(wv)

FstRecall(wv, f, t) == UNION {wv[v + 1].keys : v \in FstHits(f, t)}

PreFiltered(wm, wv, f, t) == ExactRecall(wm, t) \cup FstRecall(wv, f, t)

\* A threshold test that lets every scored candidate through.
IncludedAlways(score) == score.score >= 0

\* The inclusion test on a candidate's score.
Included(score) == score.score > SEARCH_INCLUSION_THRESHOLD

\* The map `res` of search: the candidates that score above the threshold.
ScoredMap(a, pre, t) ==
    LET scored == {<<k, LocSearch(t, a[k])>> : k \in pre}
        kept == {x \in scored : IsSome(x[2]) /\ Included(Unwrap(x[2]))}
    IN  Materialize([k \in {x[1] : x \in kept} |->
                        Unwrap((CHOOSE x \in kept : x[1] = k)[2])])

\* Whether overflow is checked matters to a query only when its scoring
\* underflows: then the build may be either (TRUE: overflow panics).
OverflowBuilds(a, pre, t) ==
    IF \E k \in pre \cap DOMAIN a : LocSearchPanics(TRUE, t, a[k])
    THEN BOOLEAN ELSE {FALSE}

\* The scoring pass panics when a candidate is not in `all`, or its search does.
ScoringPanics(checks, a, pre, t) ==
    \E k \in pre : k \notin DOMAIN a \/ LocSearchPanics(checks, t, a[k])

(***************************************************************************)
(* Graph reranking: graph.rs.  The reranker works on the integer scores.   *)
(***************************************************************************)
IntScores(res) == Materialize([k \in DOMAIN res |-> res[k].score])

\* An edge test that lets every pair of candidates through.
EdgeAlways(superkey_score, score) == TRUE

\* The edge test of from_results.
EdgeAllowed(superkey_score, score) == Min2(superkey_score, score) > GRAPH_EDGE_THRESHOLD

\* The parents of a candidate that get an edge: candidates themselves, with
\* both scores above the threshold.
EdgeParents(p, a, scores, k) ==
    {x \in {get_parents(p, a[k])[1], get_parents(p, a[k])[2]} :
        /\ IsSome(x)
        /\ Unwrap(x) \in DOMAIN scores
        /\ EdgeAllowed(scores[Unwrap(x)], scores[k])}

\* The edges of the graph: <<parent, child, weight>>.
GraphEdges(p, a, scores) ==
    UNION {{<<Unwrap(par), k, <<scores[Unwrap(par)], scores[k]>>>> :
                par \in EdgeParents(p, a, scores, k)} : k \in DOMAIN scores}

\* Ord on the weight tuple (i64, i64).
WeightLess(v, w) == v[1] < w[1] \/ (v[1] = w[1] /\ v[2] < w[2])

\* The orders sort_unstable_by(|a, b| b.2.cmp(a.2)) can leave the edges in:
\* descending weight, edges of equal weight in any order.
RECURSIVE EdgeOrders(_)
EdgeOrders(es) ==
    IF es = {} THEN {<<>>}
    ELSE UNION {{<<e>> \o rest : rest \in EdgeOrders(es \ {e})} :
                  e \in {x \in es : \A y \in es : ~WeightLess(x[3], y[3])}}

\* A total that leaves the child's own score out.
EdgeTotalBoostOnly(parent, weight) == parent_boost(parent, weight[1])

\* The score written for the child of an edge.
EdgeTotal(parent, weight) == weight[1] + weight[2]

\* The loop over the sorted edges: scores.insert(child, total).
RECURSIVE ApplyEdges(_, _, _)
ApplyEdges(a, scores, edges) ==
    IF edges = <<>> THEN scores
    ELSE LET e == Head(edges)
         IN  ApplyEdges(a, MapInsert(scores, e[2], EdgeTotal(a[e[1]], e[3])), Tail(edges))

\* ResultsGraph::from_results(...).scores, for one order of the edges.
from_results(p, a, scores, order) == ApplyEdges(a, scores, order)

\* The orders of an ascending sort, a.1.cmp(&b.1).
RECURSIVE AscendingOrders(_)
AscendingOrders(es) ==
    IF es = {} THEN {<<>>}
    ELSE UNION {{<<e>> \o rest : rest \in AscendingOrders(es \ {e})} :
                  e \in {x \in es : \A y \in es : x.score <= y.score}}

\* The orders sort_unstable_by(|a, b| b.1.cmp(&a.1)) can leave the results
\* in: descending score, entries of equal score in any order.
RECURSIVE ResultOrders(_)
ResultOrders(es) ==
    IF es = {} THEN {<<>>}
    ELSE UNION {{<<e>> \o rest : rest \in ResultOrders(es \ {e})} :
                  e \in {x \in es : \A y \in es : y.score <= x.score}}

Entries(scores) == {[key |-> k, score |-> scores[k]] : k \in DOMAIN scores}

\* A truncation that keeps one entry too many.
TruncateOneMore(v, n) == SubSeq(v, 1, Min2(n + 1, Len(v)))

\* Vec::truncate
truncate(v, n) == SubSeq(v, 1, Min2(n, Len(v)))

(***************************************************************************)
(* The reference records of the model (raw, as the data files give them).  *)
(***************************************************************************)
W_GB == <<"G","B">>
W_gb == <<"g","b">>
W_NL == <<"N","L">>
W_London == <<"L","o","n","d","o","n">>
W_london == <<"l","o","n","d","o","n">>
W_one == <<"1">>

RecGB ==
    [c |-> STATE_ENCODING, i |-> W_GB,
     d |-> [name |-> <<"G","r","e","a","t"," ","B","r","i","t","a","i","n">>,
            short |-> <<"B","r","i","t","a","i","n">>,
            alpha2 |-> W_GB, alpha3 |-> <<"G","B","R">>,
            continent |-> <<"E","U">>]]

RecLND ==
    [c |-> SUBDIV_ENCODING, i |-> <<"G","B",":","L","N","D">>,
     d |-> [name |-> <<"C","i","t","y"," ","o","f"," ","L","o","n","d","o","n">>,
            supercode |-> W_GB, subcode |-> <<"L","N","D">>,
            level |-> <<"c","i","t","y">>]]

RecLON ==
    [c |-> LOCODE_ENCODING, i |-> <<"G","B",":","L","O","N">>,
     d |-> [name |-> W_London, supercode |-> W_GB, subcode |-> <<"L","O","N">>,
            subdivision_name |-> Some(W_London),
            subdivision_code |-> Some(<<"L","N","D">>),
            function_code |-> W_one]]

RecHAG ==
    [c |-> LOCODE_ENCODING, i |-> <<"N","L",":","H","A","G">>,
     d |-> [name |-> <<"T","h","e"," ","H","a","g","u","e">>,
            supercode |-> W_NL, subcode |-> <<"H","A","G">>,
            subdivision_name |-> None, subdivision_code |-> None,
            function_code |-> W_one]]

RecLHR ==
    [c |-> IATA_ENCODING, i |-> <<"L","H","R">>,
     d |-> [name |-> <<"L","o","n","d","o","n"," ","H","e","a","t","h","r","o","w">>,
            iata |-> <<"L","H","R">>, type |-> <<"l","a","r","g","e">>,
            city |-> Some(W_London), country |-> W_GB,
            region |-> <<"G","B","-","L","N","D">>,
            y |-> <<"5","1",".","4","7">>, x |-> <<"-","0",".","4","6">>,
            elevation |-> Some(<<"8","3">>)]]

Catalogue == {RecGB, RecLND, RecLON, RecHAG, RecLHR}

(***************************************************************************)
(* The queries of the model: the windows of at most MaxTokens tokens of a  *)
(* phrase, joined by one kind of separator.                                *)
(***************************************************************************)
Phrase ==
    << <<"t","h","e">>, <<"t","h","e">>, <<"h","a","g","u","e">>,
       <<"c","i","t","y">>, <<"o","f">>, W_london, W_GB, <<"L","O","N">>,
       <<"G","B","R">>, <<"l","o","m","d","n">>, <<"g","r","e","a","t">>, <<"b","r","i","t","a","i","n">>,
       <<"l","o","n","d","n">>, <<"l","n","d","n">> >>

\* Other ways to separate two tokens: punctuation, repeated whitespace.
OtherSeparators == { <<"-">>, <<" ", " ">> }

RECURSIVE JoinWith(_, _)
JoinWith(tokens, sep) ==
    IF tokens = <<>> THEN <<>>
    ELSE IF Len(tokens) = 1 THEN tokens[1]
    ELSE tokens[1] \o sep \o JoinWith(Tail(tokens), sep)

Windows ==
    {SubSeq(Phrase, w[1], w[1] + w[2] - 1) :
        w \in {x \in (1..Len(Phrase)) \X (0..MaxTokens) : x[1] + x[2] - 1 <= Len(Phrase)}}

RawQueries ==
    {JoinWith(w, <<" ">>) : w \in Windows}
    \cup {JoinWith(w, sep) : w \in {x \in Windows : Len(x) = 2}, sep \in OtherSeparators}

\* The state arguments: none, a country code, and strings that are not interned.
StateArgs == {None, Some(W_gb), Some(W_GB)}

\* A limit that holds every candidate.
AllLimit == Cardinality(Catalogue)
Limits == (0..MaxLimit) \cup {AllLimit}
LevDists == 0..MaxLevDist

\* The argument tuples of the model: each of state, limit and lev_distance
\* varied with the others at their defaults, and a state filter with limit 1.
QueryArgs ==
    {<<s, AllLimit, 2>> : s \in StateArgs}
    \cup {<<None, l, 2>> : l \in Limits}
    \cup {<<None, AllLimit, d>> : d \in LevDists}
    \cup {<<Some(W_gb), 1, 2>>}

\* No call of match_str on its own has been made.
NotMatched == [panic |-> FALSE, score |-> None]

(***************************************************************************)
(* The state machine.                                                      *)
(***************************************************************************)
NoCall == None

Init ==
    /\ phase = "ingest"
    /\ decoders = EmptyMap
    /\ db_lock = None
    /\ csv_todo = <<>>
    /\ pool = {}
    /\ all = EmptyMap
    /\ state_by_code = EmptyMap
    /\ subdiv_by_code = EmptyMap
    /\ by_word_map = EmptyMap
    /\ by_word_vec = <<>>
    /\ fst = EmptyMap
    /\ call = NoCall
    /\ st = None
    /\ outcome = "none"
    /\ prerank = EmptyMap
    /\ reranked = EmptyMap
    /\ results = <<>>
    /\ subject_arg = None
    /\ matched = NotMatched

\* One record of the ingest: Location::from_raw, then LocationsDb::insert.
Insert(r) ==
    /\ phase = "ingest"
    /\ from_raw(r).key \notin DOMAIN all
    /\ LET l == from_raw(r)
       IN  /\ pool' = pool \cup Interned(l)
           /\ state_by_code' = InsertStateByCode(state_by_code, l)
           /\ subdiv_by_code' = InsertSubdivByCode(subdiv_by_code, l)
           /\ all' = InsertAll(all, l)
    /\ UNCHANGED <<phase, decoders, db_lock, csv_todo, by_word_map, by_word_vec,
                   fst, call, st, outcome, prerank, reranked, results>>
    /\ UNCHANGED <<subject_arg, matched>>

\* LocationsDb::mk_fst, at the end of the ingest.
MkFst ==
    /\ phase = "ingest"
    /\ phase' = "ready"
    /\ by_word_map' = WordsMap(all)
    /\ by_word_vec' = WordsVec(WordsMap(all))
    /\ fst' = FstOf(WordsVec(WordsMap(all)))
    /\ UNCHANGED <<decoders, db_lock, csv_todo, pool, all, state_by_code,
                   subdiv_by_code, call, st, outcome, prerank, reranked, results>>
    /\ UNCHANGED <<subject_arg, matched>>

QueryPanicked ==
    /\ outcome' = "panic"
    /\ prerank' = EmptyMap
    /\ reranked' = EmptyMap
    /\ results' = <<>>

\* One query: SearchTerm::from_raw_query, then LocationsDb::search.
Query(raw, state, limit, lev_distance) ==
    /\ phase = "ready"
    /\ phase' = "answered"
    /\ call' = Some([raw |-> raw, state |-> state, limit |-> limit,
                     lev_distance |-> lev_distance])
    /\ IF FromRawQueryPanics(pool, raw)
       THEN st' = None /\ QueryPanicked
       ELSE LET t == from_raw_query(pool, raw, state, limit, lev_distance)
                pre == PreFiltered(by_word_map, by_word_vec, fst, t)
            IN  /\ st' = Some(t)
                /\ \E checks \in OverflowBuilds(all, pre, t) :
                   IF \/ FstRecallPanics(by_word_vec, fst, t)
                      \/ ScoringPanics(checks, all, pre, t)
                   THEN QueryPanicked
                   ELSE LET res == ScoredMap(all, pre, t)
                            scores == IntScores(res)
                        IN  /\ outcome' = "ok"
                            /\ prerank' = res
                            /\ \E order \in EdgeOrders(GraphEdges(pool, all, scores)) :
                                  reranked' = from_results(pool, all, scores, order)
                            /\ \E sorted \in ResultOrders(Entries(reranked')) :
                                  results' = truncate(sorted, t.limit)
    /\ UNCHANGED <<decoders, db_lock, csv_todo, pool, all, state_by_code,
                   subdiv_by_code, by_word_map, by_word_vec, fst>>
    /\ UNCHANGED <<subject_arg, matched>>

\* The handler returns; the process is ready for the next query.
Return ==
    /\ phase = "answered"
    /\ phase' = "ready"
    /\ call' = NoCall
    /\ st' = None
    /\ outcome' = "none"
    /\ prerank' = EmptyMap
    /\ reranked' = EmptyMap
    /\ results' = <<>>
    /\ UNCHANGED <<decoders, db_lock, csv_todo, pool, all, state_by_code,
                   subdiv_by_code, by_word_map, by_word_vec, fst>>
    /\ UNCHANGED <<subject_arg, matched>>

Next ==
    \/ /\ phase = "ingest"
       /\ \E r \in Catalogue : Insert(r)
    \/ MkFst
    \/ /\ phase = "ready"
       /\ \E raw \in RawQueries, a \in QueryArgs : Query(raw, a[1], a[2], a[3])
    \/ Return

Spec == Init /\ [][Next]_vars

(***************************************************************************)
(* The ingest in detail: parse_data_files.  The records of the files are   *)
(* decoded by parallel tasks, each insertion takes the RwLock for writing, *)
(* then the CSV file is read row by row and mk_fst finishes the database.  *)
(***************************************************************************)
MaxBatch == 3       \* most records in the JSON files of one ingest

\* A locode whose payload lacks the field "name".
RecRTM ==
    [c |-> LOCODE_ENCODING, i |-> <<"N","L",":","R","T","M">>,
     d |-> [supercode |-> W_NL, subcode |-> <<"R","T","M">>,
            subdivision_name |-> None, subdivision_code |-> None,
            function_code |-> W_one]]

\* An airport whose elevation is not an integer.
RecAMS ==
    [c |-> IATA_ENCODING, i |-> <<"A","M","S">>,
     d |-> [name |-> <<"S","c","h","i","p","h","o","l">>,
            iata |-> <<"A","M","S">>, type |-> <<"l","a","r","g","e">>,
            city |-> None, country |-> W_NL,
            region |-> <<"N","L","-","N","H">>,
            y |-> <<"5","2",".","3","1">>, x |-> <<"4",".","7","6">>,
            elevation |-> Some(<<"n","/","a">>)]]

IngestCatalogue == {RecGB, RecLON, RecHAG, RecLHR, RecRTM, RecAMS}

Batches == {b \in SUBSET IngestCatalogue : Cardinality(b) <= MaxBatch}

\* The rows of code-list_csv.csv: a locode of the catalogue with coordinates
\* that parse, one with coordinates that do not, one without the column, and
\* a locode that no JSON file holds.
CsvFile ==
    << [country |-> W_GB, subcode |-> <<"L","O","N">>,
        coordinates |-> Some(<<"5","1","3","0","N"," ","0","0","0","0","8","W">>)],
       [country |-> W_NL, subcode |-> <<"H","A","G">>,
        coordinates |-> Some(<<"5","2","0","5","N","0","0","4","1","9","E">>)],
       [country |-> W_NL, subcode |-> <<"R","T","M">>, coordinates |-> None],
       [country |-> W_GB, subcode |-> <<"X","Y","Z">>,
        coordinates |-> Some(<<"5","0","0","0","N"," ","0","0","1","0","0","W">>)] >>

\* CsvLocode::key
CsvKey(row) ==
    DashJoin(LOCODE_ENCODING, ColonJoin(normalize(row.country), normalize(row.subcode)))

\* digit1: the longest run of digits from position i (the position after it).
RECURSIVE DigitsEnd(_, _)
DigitsEnd(s, i) == IF i <= Len(s) /\ IsDigit(s[i]) THEN DigitsEnd(s, i + 1) ELSE i

\* space1: the longest run of spaces from position i.
RECURSIVE SpacesEnd(_, _)
SpacesEnd(s, i) == IF i <= Len(s) /\ s[i] = " " THEN SpacesEnd(s, i + 1) ELSE i

\* float_from_deg_min, in minutes of arc: 60 * deg + min.
float_from_deg_min(deg, min) == 60 * DigitsValue(deg, 0) + DigitsValue(min, 0)

\* One half of coordinate_parser: n digits of degrees, digit1 of minutes and
\* a bearing letter, from position i.  None, or <<value, next position>>.
HalfCoordinate(s, i, n, positive, negative) ==
    LET m == i + n
        e == DigitsEnd(s, m)
    IN  IF m - 1 > Len(s) \/ \E j \in i..(m - 1) : ~IsDigit(s[j]) THEN None
        ELSE IF e = m \/ e > Len(s) \/ s[e] \notin {positive, negative} THEN None
        ELSE LET num == float_from_deg_min(SubSeq(s, i, m - 1), SubSeq(s, m, e - 1))
             IN  Some(<<IF s[e] = negative THEN 0 - num ELSE num, e + 1>>)

\* coordinate_parser: Ok((rest, Coordinates)) as Some(Coordinates).
coordinate_parser(s) ==
    LET lat == HalfCoordinate(s, 1, 2, "N", "S")
    IN  IF ~IsSome(lat) THEN None
        ELSE LET sp == SpacesEnd(s, Unwrap(lat)[2])
                 lon == HalfCoordinate(s, sp, 3, "E", "W")
             IN  IF sp = Unwrap(lat)[2] \/ ~IsSome(lon) THEN None
                 ELSE Some([lat |-> Unwrap(lat)[1], lon |-> Unwrap(lon)[1]])

\* CsvLocode::parse_coordinates
parse_coordinates(row) ==
    IF IsSome(row.coordinates) THEN coordinate_parser(Unwrap(row.coordinates)) ELSE None

\* match loc.data { LocData::Locd(mut d) => d.coordinages = coord, .. }:
\* LocData is Copy, so `mut d` binds a copy of the stored payload and the
\* assignment changes that copy; the entity in the map stays as it was.
AssignCoordinates(loc, coord) ==
    LET d == [loc.data EXCEPT !.coordinages = coord]
    IN  loc

\* json_decode.rs: the fields AirportRaw requires there (it has no iata).
JsonDecodeRequired(c) ==
    IF c = IATA_ENCODING THEN {"name", "type", "country", "region", "y", "x"}
    ELSE RequiredFields(c)

\* json_decode.rs: State, Subdivision, Locode and Airport ::from_raw.
JsonDecodeData(c, d) ==
    IF c = STATE_ENCODING \/ c = SUBDIV_ENCODING THEN DataFromRaw(c, d)
    ELSE IF c = LOCODE_ENCODING THEN
        [kind |-> "Locd", name |-> normalize(d.name),
         supercode |-> normalize(d.supercode), subcode |-> normalize(d.subcode),
         subdivision_name |-> OptNormalize(d.subdivision_name),
         subdivision_code |-> OptNormalize(d.subdivision_code),
         function_code |-> normalize(d.function_code)]
    ELSE
        [kind |-> "Airp", name |-> normalize(d.name), airport_type |-> d.type,
         city |-> OptNormalize(d.city), country |-> normalize(d.country),
         region |-> normalize(d.region), x |-> d.x, y |-> d.y,
         elevation |-> RawElevation(d)]

\* format!("{}#{}", a, b)
HashJoin(a, b) == a \o <<"#">> \o b

\* json_decode.rs: Location::from_raw, when it returns Ok.
json_decode_from_raw(r) ==
    [key |-> HashJoin(r.c, r.i), encoding |-> r.c, id |-> r.i,
     data |-> JsonDecodeData(r.c, r.d)]

\* The strings json_decode.rs interns for an entity.
JsonDecodeInterned(loc) ==
    {loc.encoding, loc.id, loc.key}
    \cup (IF loc.data.kind = "Airp"
          THEN {loc.data.name, loc.data.airport_type, loc.data.country,
                loc.data.region} \cup OptSet(loc.data.city)
          ELSE DataStrings(loc.data))

Task(pc, loc) == [pc |-> pc, loc |-> loc]

IngestInit ==
    /\ phase = "decode"
    /\ \E b \in Batches : decoders = Materialize([r \in b |-> Task("todo", None)])
    /\ db_lock = None
    /\ csv_todo = CsvFile
    /\ pool = {}
    /\ all = EmptyMap
    /\ state_by_code = EmptyMap
    /\ subdiv_by_code = EmptyMap
    /\ by_word_map = EmptyMap
    /\ by_word_vec = <<>>
    /\ fst = EmptyMap
    /\ call = NoCall
    /\ st = None
    /\ outcome = "none"
    /\ prerank = EmptyMap
    /\ reranked = EmptyMap
    /\ results = <<>>
    /\ subject_arg = None
    /\ matched = NotMatched

\* The filter_map closure of parse_data_files: Location::from_raw on one
\* record; a panic ends the ingest, an Err skips the record.
Decode(r) ==
    /\ phase = "decode"
    /\ decoders[r].pc = "todo"
    /\ IF FromRawPanics(r)
       THEN /\ phase' = "aborted"
            /\ UNCHANGED <<decoders, pool>>
       ELSE IF FromRawFails(r)
       THEN /\ decoders' = [decoders EXCEPT ![r] = Task("skipped", None)]
            /\ UNCHANGED <<phase, pool>>
       ELSE /\ decoders' = [decoders EXCEPT ![r] = Task("decoded", Some(from_raw(r)))]
            /\ pool' = pool \cup Interned(from_raw(r))
            /\ UNCHANGED phase
    /\ UNCHANGED <<db_lock, csv_todo, all, state_by_code, subdiv_by_code,
                   by_word_map, by_word_vec, fst, call, st, outcome, prerank,
                   reranked, results>>
    /\ UNCHANGED <<subject_arg, matched>>

\* The constructor of json_decode.rs on one record: its entity is built and
\* goes no further, LocationsDb::insert takes the other Location type.
JsonDecode(r) ==
    /\ phase = "decode"
    /\ decoders[r].pc = "todo"
    /\ IF r.c \notin KnownEncodings
       THEN /\ phase' = "aborted"
            /\ UNCHANGED <<decoders, pool>>
       ELSE IF ~(JsonDecodeRequired(r.c) \subseteq DOMAIN r.d)
       THEN /\ decoders' = [decoders EXCEPT ![r] = Task("skipped", None)]
            /\ UNCHANGED <<phase, pool>>
       ELSE /\ decoders' = [decoders EXCEPT
                               ![r] = Task("built", Some(json_decode_from_raw(r)))]
            /\ pool' = pool \cup JsonDecodeInterned(json_decode_from_raw(r))
            /\ UNCHANGED phase
    /\ UNCHANGED <<db_lock, csv_todo, all, state_by_code, subdiv_by_code,
                   by_word_map, by_word_vec, fst, call, st, outcome, prerank,
                   reranked, results>>
    /\ UNCHANGED <<subject_arg, matched>>

\* A lock that never makes a task wait.
LockBusyIgnored(lock) == TRUE

\* db.write(): the task waits until no other task holds the lock.
LockFree(lock) == lock = None

AcquireWrite(r) ==
    /\ phase = "decode"
    /\ decoders[r].pc = "decoded"
    /\ LockFree(db_lock)
    /\ db_lock' = Some(r)
    /\ decoders' = [decoders EXCEPT ![r].pc = "writing"]
    /\ UNCHANGED <<phase, csv_todo, pool, all, state_by_code, subdiv_by_code,
                   by_word_map, by_word_vec, fst, call, st, outcome, prerank,
                   reranked, results>>
    /\ UNCHANGED <<subject_arg, matched>>

\* db.insert(l), under the lock.
InsertLocked(r) ==
    /\ phase = "decode"
    /\ decoders[r].pc = "writing"
    /\ LET l == Unwrap(decoders[r].loc)
       IN  /\ state_by_code' = InsertStateByCode(state_by_code, l)
           /\ subdiv_by_code' = InsertSubdivByCode(subdiv_by_code, l)
           /\ all' = InsertAll(all, l)
    /\ decoders' = [decoders EXCEPT ![r].pc = "inserted"]
    /\ UNCHANGED <<phase, db_lock, csv_todo, pool, by_word_map, by_word_vec, fst,
                   call, st, outcome, prerank, reranked, results>>
    /\ UNCHANGED <<subject_arg, matched>>

\* The write guard is dropped at the end of the for_each closure.
ReleaseWrite(r) ==
    /\ phase = "decode"
    /\ decoders[r].pc = "inserted"
    /\ db_lock' = None
    /\ decoders' = [decoders EXCEPT ![r].pc = "done"]
    /\ UNCHANGED <<phase, csv_todo, pool, all, state_by_code, subdiv_by_code,
                   by_word_map, by_word_vec, fst, call, st, outcome, prerank,
                   reranked, results>>
    /\ UNCHANGED <<subject_arg, matched>>

\* Every task of the parallel pass has ended: db.into_inner().
DecodersDone == \A r \in DOMAIN decoders : decoders[r].pc \in {"skipped", "built", "done"}

StartCsv ==
    /\ phase = "decode"
    /\ DecodersDone
    /\ phase' = "csv"
    /\ UNCHANGED <<decoders, db_lock, csv_todo, pool, all, state_by_code,
                   subdiv_by_code, by_word_map, by_word_vec, fst, call, st,
                   outcome, prerank, reranked, results>>
    /\ UNCHANGED <<subject_arg, matched>>

\* One turn of the loop over the CSV rows.
CsvRow ==
    /\ phase = "csv"
    /\ csv_todo # <<>>
    /\ csv_todo' = Tail(csv_todo)
    /\ LET row == Head(csv_todo)
           key == CsvKey(row)
       IN  IF key \notin DOMAIN all
           THEN UNCHANGED <<phase, all>>
           ELSE IF all[key].data.kind # "Locd"
           THEN phase' = "aborted" /\ UNCHANGED all
           ELSE /\ all' = [all EXCEPT
                              ![key] = AssignCoordinates(all[key], parse_coordinates(row))]
                /\ UNCHANGED phase
    /\ pool' = pool \cup {CsvKey(Head(csv_todo))}
    /\ UNCHANGED <<decoders, db_lock, state_by_code, subdiv_by_code, by_word_map,
                   by_word_vec, fst, call, st, outcome, prerank, reranked, results>>
    /\ UNCHANGED <<subject_arg, matched>>

\* db.mk_fst() at the end of parse_data_files.
FinishIngest ==
    /\ phase = "csv"
    /\ csv_todo = <<>>
    /\ phase' = "ready"
    /\ by_word_map' = WordsMap(all)
    /\ by_word_vec' = WordsVec(WordsMap(all))
    /\ fst' = FstOf(WordsVec(WordsMap(all)))
    /\ UNCHANGED <<decoders, db_lock, csv_todo, pool, all, state_by_code,
                   subdiv_by_code, call, st, outcome, prerank, reranked, results>>
    /\ UNCHANGED <<subject_arg, matched>>

IngestNext ==
    \/ \E r \in DOMAIN decoders : Decode(r)
    \/ \E r \in DOMAIN decoders : JsonDecode(r)
    \/ \E r \in DOMAIN decoders : AcquireWrite(r)
    \/ \E r \in DOMAIN decoders : InsertLocked(r)
    \/ \E r \in DOMAIN decoders : ReleaseWrite(r)
    \/ StartCsv
    \/ CsvRow
    \/ FinishIngest

IngestSpec == IngestInit /\ [][IngestNext]_vars

(***************************************************************************)
(* The index under any sequence of its two operations: insert and mk_fst   *)
(* are public and can be called in any order, any number of times.         *)
(***************************************************************************)
\* A second record for the key of RecLON, under another name.
RecLONb ==
    [RecLON EXCEPT !.d.name = <<"L","o","n","d","r","e","s">>,
                   !.d.subdivision_name = None]

\* A second record for the key of RecGB, with another alpha2 and name.
RecGBb ==
    [RecGB EXCEPT !.d.alpha2 = <<"U","K">>,
                  !.d.name = <<"U","n","i","t","e","d"," ","K","i","n","g","d","o","m">>]

DbCatalogue == {RecGB, RecGBb, RecLND, RecLON, RecLONb, RecLHR}

DbInit ==
    /\ phase = "db"
    /\ decoders = EmptyMap
    /\ db_lock = None
    /\ csv_todo = <<>>
    /\ pool = {}
    /\ all = EmptyMap
    /\ state_by_code = EmptyMap
    /\ subdiv_by_code = EmptyMap
    /\ by_word_map = EmptyMap
    /\ by_word_vec = <<>>
    /\ fst = EmptyMap
    /\ call = NoCall
    /\ st = None
    /\ outcome = "none"
    /\ prerank = EmptyMap
    /\ reranked = EmptyMap
    /\ results = <<>>
    /\ subject_arg = None
    /\ matched = NotMatched

\* LocationsDb::insert of the entity of one record, new or stored already.
DbInsert(r) ==
    /\ phase = "db"
    /\ LET l == from_raw(r)
       IN  /\ pool' = pool \cup Interned(l)
           /\ state_by_code' = InsertStateByCode(state_by_code, l)
           /\ subdiv_by_code' = InsertSubdivByCode(subdiv_by_code, l)
           /\ all' = InsertAll(all, l)
    /\ UNCHANGED <<phase, decoders, db_lock, csv_todo, by_word_map, by_word_vec,
                   fst, call, st, outcome, prerank, reranked, results>>
    /\ UNCHANGED <<subject_arg, matched>>

\* LocationsDb::mk_fst on the database as it is.
DbMkFst ==
    /\ phase = "db"
    /\ by_word_map' = WordsMap(all)
    /\ by_word_vec' = WordsVec(WordsMap(all))
    /\ fst' = FstOf(WordsVec(WordsMap(all)))
    /\ UNCHANGED <<phase, decoders, db_lock, csv_todo, pool, all, state_by_code,
                   subdiv_by_code, call, st, outcome, prerank, reranked, results>>
    /\ UNCHANGED <<subject_arg, matched>>

DbNext ==
    \/ \E r \in DbCatalogue : DbInsert(r)
    \/ DbMkFst

DbSpec == DbInit /\ [][DbNext]_vars

(***************************************************************************)
(* The server after the ingest: queries and fetches by key on the index of *)
(* the whole catalogue.                                                    *)
(***************************************************************************)
\* The keys a client asks for: one that is stored, one that is not.
FetchKeys == {from_raw(RecLON).key, <<"n","o","n","e">>}

ServeInit ==
    /\ phase = "ready"
    /\ decoders = EmptyMap
    /\ db_lock = None
    /\ csv_todo = <<>>
    /\ pool = UNION {Interned(from_raw(r)) : r \in Catalogue}
    /\ all = Materialize([k \in {from_raw(r).key : r \in Catalogue} |->
                             from_raw(CHOOSE r \in Catalogue : from_raw(r).key = k)])
    /\ state_by_code = InsertStateByCode(EmptyMap, from_raw(RecGB))
    /\ subdiv_by_code = InsertSubdivByCode(EmptyMap, from_raw(RecLND))
    /\ by_word_map = WordsMap(all)
    /\ by_word_vec = WordsVec(WordsMap(all))
    /\ fst = FstOf(WordsVec(WordsMap(all)))
    /\ call = NoCall
    /\ st = None
    /\ outcome = "none"
    /\ prerank = EmptyMap
    /\ reranked = EmptyMap
    /\ results = <<>>
    /\ subject_arg = None
    /\ matched = NotMatched

\* fetch_handler: Ustr::from(key), then state.all.get(&key).
Fetch(key) ==
    /\ phase = "ready"
    /\ phase' = "answered"
    /\ pool' = pool \cup {key}
    /\ outcome' = IF key \in DOMAIN all THEN "found" ELSE "not found"
    /\ results' = IF key \in DOMAIN all THEN <<[key |-> key, score |-> 0]>> ELSE <<>>
    /\ UNCHANGED <<decoders, db_lock, csv_todo, all, state_by_code, subdiv_by_code,
                   by_word_map, by_word_vec, fst, call, st, prerank, reranked>>
    /\ UNCHANGED <<subject_arg, matched>>

\* Queries that say a word twice.
RepeatedQueries == {JoinWith(<<W_london, W_london>>, <<" ">>),
                    JoinWith(<<W_GB, W_london, W_GB>>, <<" ">>)}

ServeNext ==
    \/ /\ phase = "ready"
       /\ \E raw \in RawQueries \cup RepeatedQueries, a \in QueryArgs :
             Query(raw, a[1], a[2], a[3])
    \/ \E key \in FetchKeys : Fetch(key)
    \/ Return

ServeSpec == ServeInit /\ [][ServeNext]_vars

(***************************************************************************)
(* match_str on its own: one parsed query and one subject string.          *)
(***************************************************************************)
\* The subjects of the model: of length 0 and 1, codes, names, and a name
\* that a term of the phrase is a prefix of.
Subjects ==
    { <<>>, <<"g">>, W_gb, <<"l","o","n">>, <<"c","i","t","y">>,
      <<"h","a","g","u","e">>, W_london, <<"l","o","n","d","n","s">>,
      <<"b","r","i","t","a","i","n">> }

\* The pools the query is parsed against: nothing interned, or the catalogue.
MatchPools == {{}, UNION {Interned(from_raw(r)) : r \in Catalogue}}

MatchInit ==
    /\ phase = "match"
    /\ decoders = EmptyMap
    /\ db_lock = None
    /\ csv_todo = <<>>
    /\ pool \in MatchPools
    /\ all = EmptyMap
    /\ state_by_code = EmptyMap
    /\ subdiv_by_code = EmptyMap
    /\ by_word_map = EmptyMap
    /\ by_word_vec = <<>>
    /\ fst = EmptyMap
    /\ call = NoCall
    /\ st \in {Some(from_raw_query(pool, raw, None, AllLimit, 2)) :
                 raw \in {x \in RawQueries : ~FromRawQueryPanics(pool, x)}}
    /\ outcome = "none"
    /\ prerank = EmptyMap
    /\ reranked = EmptyMap
    /\ results = <<>>
    /\ subject_arg \in {Some(s) : s \in Subjects}
    /\ matched = NotMatched

\* SearchTerm::match_str(subject), in a build with or without overflow checks.
MatchStr(checks) ==
    /\ phase = "match"
    /\ phase' = "matched"
    /\ matched' = IF MatchStrPanics(checks, Unwrap(st), Unwrap(subject_arg))
                  THEN [panic |-> TRUE, score |-> None]
                  ELSE [panic |-> FALSE, score |-> match_str(Unwrap(st), Unwrap(subject_arg))]
    /\ UNCHANGED <<decoders, db_lock, csv_todo, pool, all, state_by_code,
                   subdiv_by_code, by_word_map, by_word_vec, fst, call, st, outcome,
                   prerank, reranked, results, subject_arg>>

MatchNext == \E checks \in BOOLEAN : MatchStr(checks)

MatchSpec == MatchInit /\ [][MatchNext]_vars

(***************************************************************************)
(* Properties of a query.                                                  *)
(***************************************************************************)
Answered == phase = "answered"
Ok == outcome = "ok"
TheCall == Unwrap(call)
TheTerm == Unwrap(st)
ResultKeys == {results[i].key : i \in 1..Len(results)}

\* The candidates of the answered query and the scores Location::search
\* gives them.
Recalled == PreFiltered(by_word_map, by_word_vec, fst, TheTerm)
SearchScore(k) == LocSearch(TheTerm, all[k])

\* C1: search is total: every query string, "GB-LON", repeated whitespace and
\* the empty string included, gets an answer (possibly empty) and no abort.
C1_SearchIsTotal == Answered => Ok

\* C2: the results are in non-increasing order of final score and no entity
\* key appears twice.
C2_SortedNoDuplicates ==
    (Answered /\ Ok) =>
        /\ \A i \in 1..Len(results), j \in 1..Len(results) :
              i < j => results[i].score >= results[j].score
        /\ \A i \in 1..Len(results), j \in 1..Len(results) :
              i # j => results[i].key # results[j].key

C2_Witness ==
    /\ Answered /\ Ok
    /\ Len(results) >= 3
    /\ results[1].score > results[2].score
    /\ results[2].score = results[3].score

\* C3: a candidate whose Location::search score is at most 400 is dropped
\* before reranking, and every result has a final score of at least 400.
C3_InclusionThreshold ==
    (Answered /\ Ok) =>
        /\ \A k \in Recalled :
              (IsSome(SearchScore(k)) /\ Unwrap(SearchScore(k)).score <= 400)
                  => (k \notin DOMAIN prerank /\ k \notin DOMAIN reranked
                      /\ k \notin ResultKeys)
        /\ \A i \in 1..Len(results) : results[i].score >= 400

C3_Witness ==
    /\ Answered /\ Ok
    /\ results # <<>>
    /\ \E k \in Recalled :
          IsSome(SearchScore(k)) /\ Unwrap(SearchScore(k)).score <= 400

\* C4: with n candidates above the inclusion threshold, search returns
\* exactly min(limit, n) results, the highest-ranked ones; limit 0 gives none.
C4_LimitTruncates ==
    (Answered /\ Ok) =>
        /\ Len(results) = Min2(TheCall.limit, Cardinality(DOMAIN prerank))
        /\ ResultKeys \subseteq DOMAIN prerank
        /\ \A i \in 1..Len(results) : results[i].score = reranked[results[i].key]
        /\ \A k \in DOMAIN reranked \ ResultKeys :
              \A i \in 1..Len(results) : reranked[k] <= results[i].score
        /\ TheCall.limit = 0 => results = <<>>

C4_Witness ==
    /\ Answered /\ Ok
    /\ TheCall.limit >= 1
    /\ Cardinality(DOMAIN prerank) > TheCall.limit
    /\ Len(results) = TheCall.limit

\* C5: when the state_filter resolves to an interned string, every result's
\* get_state() equals the filter: entities of other states are left out.
C5_StateFilterApplies ==
    (Answered /\ Ok /\ IsSome(TheTerm.state_filter)) =>
        \A i \in 1..Len(results) :
            get_state(all[results[i].key]) = Unwrap(TheTerm.state_filter)

C5_Witness ==
    /\ Answered /\ Ok
    /\ IsSome(TheTerm.state_filter)
    /\ results # <<>>
    /\ \E k \in Recalled : get_state(all[k]) # Unwrap(TheTerm.state_filter)

\* The results search can return for the term t: every order the two
\* unstable sorts can leave.
ResultsFor(t) ==
    LET res == ScoredMap(all, PreFiltered(by_word_map, by_word_vec, fst, t), t)
        scores == IntScores(res)
    IN  {truncate(sorted, t.limit) :
            sorted \in UNION {ResultOrders(Entries(from_results(pool, all, scores, order))) :
                                order \in EdgeOrders(GraphEdges(pool, all, scores))}}

\* C6: a state_filter that is not an interned string is ignored: no filter
\* is applied and the results are those of the same query without a filter.
C6_UnknownStateFilterIgnored ==
    (Answered /\ Ok /\ IsSome(TheCall.state)
        /\ ~from_existing(pool, Unwrap(TheCall.state))) =>
        LET unfiltered == from_raw_query(pool, TheCall.raw, None, TheCall.limit,
                                         TheCall.lev_distance)
        IN  /\ TheTerm.state_filter = None
            /\ prerank = ScoredMap(all, PreFiltered(by_word_map, by_word_vec, fst,
                                                    unfiltered), unfiltered)
            /\ results \in ResultsFor(unfiltered)

C6_Witness ==
    /\ Answered /\ Ok
    /\ IsSome(TheCall.state)
    /\ ~from_existing(pool, Unwrap(TheCall.state))
    /\ \E i \in 1..Len(results) : get_state(all[results[i].key]) = W_gb
    /\ \E i \in 1..Len(results) : get_state(all[results[i].key]) # W_gb

\* The terms of the three match collections of a parsed query.
MatchTerms(t) ==
    {m.term : m \in SeqRange(t.codes) \cup SeqRange(t.exact_matches)
                    \cup SeqRange(t.not_exact_matches)}

\* C7: no stop-word token of a parsed query (a token in its stop_words), and
\* no n-gram built from one, is in codes, exact_matches or not_exact_matches.
C7_StopWordsNeverMatch ==
    (Answered /\ IsSome(st)) =>
        \A term \in MatchTerms(TheTerm) :
            \A w \in SeqRange(split(term, " ")) : ~InSeq(w, TheTerm.stop_words)

\* C8: the empty query and a query whose every token is a stop word parse to
\* empty codes, exact_matches and not_exact_matches, and search returns no result.
C8_StopWordQueryIsEmpty ==
    (Answered /\ IsSome(st)
        /\ TheTerm.stop_words = unicode_words(TheTerm.normalized)) =>
        /\ TheTerm.codes = <<>>
        /\ TheTerm.exact_matches = <<>>
        /\ TheTerm.not_exact_matches = <<>>
        /\ Ok => results = <<>>

\* C9: the lev_dist a parsed query carries into the automaton is
\* min(lev_distance, 2), whatever lev_distance was passed.
C9_LevDistClamped ==
    (Answered /\ IsSome(st)) => TheTerm.lev_dist = Min2(TheCall.lev_distance, 2)

\* C10: a query that is exactly one of an entity's normalized names, of any
\* number of words, returns that entity with a score of at least 1000 when
\* the limit is large enough and no state filter is given.
C10_ExactNameScoresSoftMax ==
    \A k \in DOMAIN all : \A i \in 1..Len(get_names(all[k])) :
        (Answered /\ TheCall.raw = get_names(all[k])[i]
            /\ TheCall.state = None /\ TheCall.limit = AllLimit) =>
            /\ Ok
            /\ \E j \in 1..Len(results) :
                  results[j].key = k /\ results[j].score >= 1000

\* C12: the result order is deterministic: for a fixed index and query there
\* is one sequence search can return, the one returned, also when candidates
\* have equal scores and when the limit cuts through a group of equals.
C12_DeterministicOrder ==
    (Answered /\ Ok) => ResultsFor(TheTerm) = {results}

\* C30: reranking keeps the set of candidates and never lowers a score,
\* whatever the order in which the edges are processed.
C30_RerankOnlyBoosts ==
    (Answered /\ Ok) =>
        /\ DOMAIN reranked = DOMAIN prerank
        /\ \A k \in DOMAIN prerank : reranked[k] >= prerank[k].score

\* A query with a candidate that has two incoming edges, and one with none.
C30_Witness ==
    /\ Answered /\ Ok
    /\ \E k \in DOMAIN prerank :
          /\ Cardinality({e \in GraphEdges(pool, all, IntScores(prerank)) : e[2] = k}) >= 2
          /\ reranked[k] > prerank[k].score
    /\ \E k \in DOMAIN prerank : reranked[k] = prerank[k].score

(***************************************************************************)
(* Properties of the ingest.                                               *)
(***************************************************************************)
\* The entities the tasks of the ingest have built so far, with their records.
Built == {<<r, Unwrap(decoders[r].loc)>> : r \in {x \in DOMAIN decoders : IsSome(decoders[x].loc)}}

\* The ways a key reads as "<encoding>-<id>" with a known encoding.
KeyParses(key) ==
    {<<e, SubSeq(key, Len(e) + 2, Len(key))>> :
        e \in {x \in KnownEncodings :
                  Len(key) > Len(x) /\ SubSeq(key, 1, Len(x) + 1) = x \o <<"-">>}}

\* C11: every entity built from a raw record has the key
\* "<encoding>-<normalized id>" with one of the four encodings, which parses
\* back to exactly (encoding, id); no other separator, no raw id.
C11_KeyFormat ==
    \A b \in Built :
        LET r == b[1]
            l == b[2]
        IN  /\ l.encoding \in KnownEncodings
            /\ l.id = normalize(r.i)
            /\ l.key = DashJoin(l.encoding, l.id)
            /\ KeyParses(l.key) = {<<l.encoding, l.id>>}

\* The well-formed records of the batch: known encoding, payload that decodes.
WellFormed == {r \in DOMAIN decoders : r.c \in KnownEncodings /\ PayloadDecodes(r.c, r.d)
                                        /\ ~ElevationPanics(r.d)}

\* The records with a known encoding whose payload is malformed: a missing
\* field, or an elevation that is not an integer.
Malformed == {r \in DOMAIN decoders : r.c \in KnownEncodings /\ r \notin WellFormed}

\* C13: a malformed payload of a known schema never aborts the ingest: the
\* record is skipped and every well-formed record of the batch is inserted
\* by the time the parallel pass has ended.
C13_MalformedIsSkipped ==
    /\ phase # "aborted"
    /\ \A r \in Malformed :
          decoders[r].pc \notin {"decoded", "writing", "inserted", "done"}
    /\ phase \in {"csv", "ready"} =>
          \A r \in WellFormed :
              decoders[r].pc = "done" => from_raw(r).key \in DOMAIN all

CsvKeys == {CsvKey(CsvFile[i]) : i \in 1..Len(CsvFile)}

\* C14: after the CSV pass, the locode stored under the key of each row
\* carries the coordinates the row parses to, or none when the column does
\* not parse; every other entity is as it was inserted.
C14_CoordinatesStored ==
    phase = "ready" =>
        /\ \A i \in 1..Len(CsvFile) :
              CsvKey(CsvFile[i]) \in DOMAIN all =>
                  all[CsvKey(CsvFile[i])].data.coordinages = parse_coordinates(CsvFile[i])
        /\ \A b \in Built :
              (decoders[b[1]].pc = "done" /\ b[2].key \notin CsvKeys) => all[b[2].key] = b[2]

\* C15: of the Scores with equal integer score that a candidate's search
\* compares, the one picked has the earliest start and, for equal start, the
\* smallest end.
C15_TiesFavourEarlierSpan ==
    (Answered /\ Ok) =>
        \A k \in DOMAIN prerank :
            \A s \in ComparedScores(TheTerm, all[k]) :
                s.score = prerank[k].score => ~OffsetLess(s.offset, prerank[k].offset)

\* The totals a child gets over its incoming edges when each parent lends
\* parent_boost of its score.
BoostedTotals(k) ==
    {parent_boost(all[e[1]], e[3][1]) + e[3][2] :
        e \in {x \in GraphEdges(pool, all, IntScores(prerank)) : x[2] = k}}

\* C16: after reranking, a candidate's score is the maximum of its score
\* before reranking and, over its incoming edges, the parent's parent_boost
\* of the parent score plus the child score.
C16_RerankIsMaxOfBoosts ==
    (Answered /\ Ok) =>
        \A k \in DOMAIN reranked :
            /\ reranked[k] \in {prerank[k].score} \cup BoostedTotals(k)
            /\ \A x \in {prerank[k].score} \cup BoostedTotals(k) : x <= reranked[k]

\* The offset an entry of the reranked output carries: ResultsGraph.scores
\* maps a key to an i64, so an entry has one only if it was given the field.
OffsetOf(entry) == IF "offset" \in DOMAIN entry THEN Some(entry.offset) ELSE None

\* C17: every entry of the reranked output carries the offset its candidate
\* had before reranking, boosted or not.
C17_RerankKeepsOffsets ==
    (Answered /\ Ok) =>
        \A e \in Entries(reranked) : OffsetOf(e) = Some(prerank[e.key].offset)

\* The parent keys of a candidate, as get_parents returns them.
ParentKeys(k) ==
    {Unwrap(x) : x \in {y \in {get_parents(pool, all[k])[1], get_parents(pool, all[k])[2]} :
                           IsSome(y)}}

\* C18: the graph has an edge parent -> child exactly when the parent key of
\* the child is a candidate and both scores before reranking are above
\* GRAPH_EDGE_THRESHOLD; its weight is the pair of those scores; a child
\* changes score only through one of its edges.
C18_EdgeExactlyAboveThreshold ==
    (Answered /\ Ok) =>
        LET E == GraphEdges(pool, all, IntScores(prerank))
        IN  /\ \A p \in DOMAIN prerank, k \in DOMAIN prerank :
                  (\E e \in E : e[1] = p /\ e[2] = k)
                      <=> /\ p \in ParentKeys(k)
                          /\ prerank[p].score > GRAPH_EDGE_THRESHOLD
                          /\ prerank[k].score > GRAPH_EDGE_THRESHOLD
            /\ \A e \in E :
                  /\ e[1] \in DOMAIN prerank
                  /\ e[2] \in DOMAIN prerank
                  /\ e[3] = <<prerank[e[1]].score, prerank[e[2]].score>>
            /\ \A k \in DOMAIN prerank :
                  reranked[k] # prerank[k].score =>
                      \E e \in E : e[2] = k /\ reranked[k] = EdgeTotal(all[e[1]], e[3])

\* A query with a boosted child and a child at or below the threshold whose
\* parent is a candidate.
C18_Witness ==
    /\ Answered /\ Ok
    /\ \E p \in DOMAIN prerank, k \in DOMAIN prerank :
          /\ p \in ParentKeys(k)
          /\ prerank[p].score > GRAPH_EDGE_THRESHOLD
          /\ prerank[k].score <= GRAPH_EDGE_THRESHOLD
          /\ reranked[k] = prerank[k].score
    /\ \E k \in DOMAIN prerank : reranked[k] # prerank[k].score

\* The records whose decode gave an entity for LocationsDb::insert.
Decoded == {r \in DOMAIN decoders : decoders[r].pc \in {"decoded", "writing", "inserted", "done"}}

\* The tasks between db.write() and the drop of the guard.
Inserting == {r \in DOMAIN decoders : decoders[r].pc \in {"writing", "inserted"}}

\* C19: at most one insertion is in progress at a time; once the parallel
\* pass has ended the keys of `all` are exactly the keys of the decoded
\* records, and as the sequential CSV pass starts `all` maps each key to the
\* entity of its record, whatever the interleaving was.
C19_InsertionsSerialized ==
    /\ Cardinality(Inserting) <= 1
    /\ phase \in {"csv", "ready"} => DOMAIN all = {from_raw(r).key : r \in Decoded}
    /\ (phase = "csv" /\ csv_todo = CsvFile) =>
          \A r \in Decoded : all[from_raw(r).key] = from_raw(r)

\* The ingest has completed with two records inserted by parallel tasks.
C19_Witness ==
    /\ phase = "ready"
    /\ Cardinality({r \in DOMAIN decoders : decoders[r].pc = "done"}) >= 2

(***************************************************************************)
(* Properties of the index.                                                *)
(***************************************************************************)
\* The keys held by the sets of the word index.
IndexedKeys ==
    UNION {by_word_map[w] : w \in DOMAIN by_word_map}
        \cup UNION {by_word_vec[i].keys : i \in 1..Len(by_word_vec)}

\* C20: after any sequence of insert and mk_fst, every key in a set of the
\* word index is a key of `all`.
C20_IndexedKeysExist == IndexedKeys \subseteq DOMAIN all

\* The index was built, then an entity was stored over one it lists and a
\* new entity was inserted.
C20_Witness ==
    /\ IndexedKeys # {}
    /\ \E k \in IndexedKeys : \E w \in DOMAIN by_word_map :
          k \in by_word_map[w] /\ w \notin IndexTokens(all[k])
    /\ DOMAIN all \ IndexedKeys # {}

\* C21: the FST has the words of the word index as its keys, the word
\* vector is in strictly increasing byte order of its words, and the value
\* of a word in the FST is the position of its entry in the vector (counted
\* from 0), which holds the same keys as the word index.
C21_FstMatchesIndex ==
    /\ DOMAIN fst = DOMAIN by_word_map
    /\ \A i \in 1..(Len(by_word_vec) - 1) :
          StrLess(by_word_vec[i].word, by_word_vec[i + 1].word)
    /\ \A w \in DOMAIN fst :
          /\ fst[w] + 1 \in 1..Len(by_word_vec)
          /\ by_word_vec[fst[w] + 1].word = w
          /\ by_word_vec[fst[w] + 1].keys = by_word_map[w]

\* An index of several words, one of them shared by two entities.
C21_Witness ==
    /\ Cardinality(DOMAIN fst) >= 3
    /\ \E w \in DOMAIN by_word_map : Cardinality(by_word_map[w]) >= 2

\* C26: in the word index mk_fst has built from the entities now stored,
\* every key is a token of length at least 4 and lists only keys of entities
\* that have that token among their words, codes and names.
C26_IndexKeysAreLongTokens ==
    by_word_map = WordsMap(all) =>
        \A w \in DOMAIN by_word_map :
            /\ Len(w) >= 4
            /\ \A k \in by_word_map[w] : k \in DOMAIN all /\ w \in IndexTokens(all[k])

\* The stored airports whose region has a second segment that, with the
\* country, is the id of a stored subdivision.
AirportsInSubdivision ==
    {k \in DOMAIN all :
        /\ all[k].data.kind = "Airp"
        /\ Len(split(all[k].data.region, "-")) >= 2
        /\ DashJoin(SUBDIV_ENCODING,
                    ColonJoin(all[k].data.country, split(all[k].data.region, "-")[2]))
              \in DOMAIN all}

\* C27: such an airport has the country and that subdivision as its parents,
\* and Location::get_subdiv and LocData::get_subdiv both give the code of the
\* subdivision.
C27_AirportSubdivisionParent ==
    \A k \in AirportsInSubdivision :
        LET a == all[k]
            code == split(a.data.region, "-")[2]
        IN  /\ get_parents(pool, a) =
                  <<state_key(pool, a.data.country), subdiv_key(pool, a.data.country, code)>>
            /\ IsSome(get_parents(pool, a)[2])
            /\ get_subdiv(pool, a) = Some(code)
            /\ LocData_get_subdiv(a.data) = Some(code)

\* The stored entities of one kind.
StoredOfKind(kind) == {all[k] : k \in {x \in DOMAIN all : all[x].data.kind = kind}}

\* C28: after any sequence of inserts, state_by_code holds (c, n) exactly
\* when a stored country has alpha2 c and name n, and subdiv_by_code holds
\* (id, n) exactly when a stored subdivision has that id and name.
C28_CodeMapsFollowAll ==
    /\ \A c \in DOMAIN state_by_code :
          \E l \in StoredOfKind("St") : l.data.alpha2 = c /\ l.data.name = state_by_code[c]
    /\ \A l \in StoredOfKind("St") :
          l.data.alpha2 \in DOMAIN state_by_code /\ state_by_code[l.data.alpha2] = l.data.name
    /\ \A id \in DOMAIN subdiv_by_code :
          \E l \in StoredOfKind("Subdv") : l.id = id /\ l.data.name = subdiv_by_code[id]
    /\ \A l \in StoredOfKind("Subdv") :
          l.id \in DOMAIN subdiv_by_code /\ subdiv_by_code[l.id] = l.data.name

(***************************************************************************)
(* Properties of the server.                                               *)
(***************************************************************************)
\* C22: once the ingest is finalized, no step of handling a request adds a
\* string to the interned pool.
C22_QueriesNeverIntern ==
    [][(phase \in {"ready", "answered"}) => (pool' = pool)]_vars

\* The byte positions, counted from 0, at which the tokens of s start.
TokenStarts(s) ==
    {i - 1 : i \in {j \in 1..Len(s) : IsWordChar(s[j]) /\ (j = 1 \/ ~IsWordChar(s[j - 1]))}}

\* The byte position of token i (from 1) of s.
TokenStart(s, i) ==
    CHOOSE p \in TokenStarts(s) : Cardinality({q \in TokenStarts(s) : q < p}) = i - 1

\* Every match the parsed query holds, of the three kinds.
Emitted(t) ==
    SeqRange(t.codes) \cup SeqRange(t.exact_matches) \cup SeqRange(t.not_exact_matches)

\* C29: the offset of every match spans its term in the normalized query,
\* and for the n-gram starting at token i that the query holds as a match,
\* a match of that term starts at the byte position of token i.
C29_OffsetPointsAtOccurrence ==
    IsSome(st) =>
        LET t == TheTerm
            words == unicode_words(t.normalized)
        IN  /\ \A m \in Emitted(t) :
                  SubSeq(t.normalized, m.offset.start + 1, m.offset.end) = m.term
            /\ \A i \in 1..Len(words), n \in 1..3 :
                  (i + n - 1 <= Len(words)
                     /\ \E m \in Emitted(t) :
                           m.term = JoinWith(SubSeq(words, i, i + n - 1), <<" ">>))
                  => \E m \in Emitted(t) :
                        /\ m.term = JoinWith(SubSeq(words, i, i + n - 1), <<" ">>)
                        /\ m.offset.start = TokenStart(t.normalized, i)

(***************************************************************************)
(* Properties of match_str.                                                *)
(***************************************************************************)
\* The length of the longest term of the query.
MaxTermLen(t) ==
    LET lens == {Len(m.term) : m \in SeqRange(t.exact_matches) \cup SeqRange(t.not_exact_matches)}
    IN  IF lens = {} THEN 0 ELSE CHOOSE n \in lens : \A k \in lens : k <= n

\* C23: match_str returns None or a Score whose score is at least 0 and at
\* most SCORE_SOFT_MAX + 2 * L, L the length of the longest term of the query.
C23_MatchStrScoreRange ==
    phase = "matched" =>
        /\ ~matched.panic
        /\ IsSome(matched.score) =>
              /\ Unwrap(matched.score).score >= 0
              /\ Unwrap(matched.score).score <= SCORE_SOFT_MAX + 2 * MaxTermLen(TheTerm)

\* The not-exact terms of the query that are not a prefix hit on the subject.
SimilarityTerms(t, subject) ==
    {w.term : w \in {x \in SeqRange(t.not_exact_matches) : ~IsPrefixHit(x.term, subject)}}

\* C24: for a not-exact term that is not a prefix hit, match_str scores the
\* Levenshtein similarity exactly when the lengths of term and subject differ
\* by at most 1, and 0 otherwise, and does not fail, whatever the length of
\* the subject.
C24_LengthWindow ==
    phase = "matched" =>
        /\ ~matched.panic
        /\ \A term \in SimilarityTerms(TheTerm, Unwrap(subject_arg)) :
              NotExactScore(term, Unwrap(subject_arg)) =
                  IF /\ Len(term) - Len(Unwrap(subject_arg)) <= 1
                     /\ Len(Unwrap(subject_arg)) - Len(term) <= 1
                  THEN SimilarityScore(Unwrap(subject_arg), term)
                  ELSE 0

(***************************************************************************)
(* Properties of query parsing.                                            *)
(***************************************************************************)
\* C25: the exact matches of a parsed query hold no term twice and are in
\* order of non-increasing term length.
C25_ExactMatchesSortedDeduplicated ==
    IsSome(st) =>
        LET em == TheTerm.exact_matches
        IN  /\ \A i \in 1..Len(em), j \in 1..Len(em) : em[i].term = em[j].term => i = j
            /\ \A i \in 1..(Len(em) - 1) : Len(em[i].term) >= Len(em[i + 1].term)

====
